---- MODULE Spec2Model ----
(***************************************************************************)
(* TCPServer<TServer, TSession> of include/server/tcp/server.inl as a      *)
(* state machine.                                                          *)
(*                                                                         *)
(* Threads: one external controller thread ("main") that issues Start()    *)
(* and Stop() one after another (in ConcSpec a second one, "main2", does   *)
(* the same), the server thread ("loop") that Start() spawns and that      *)
(* runs ServerLoop(), and external threads (Workers) that hold session     *)
(* handles and call UnregisterSession(id).  Every read or                  *)
(* write of a shared member (_started, _sessions, _sessions_lock, the      *)
(* Asio service) is a step of its own, so every interleaving of the        *)
(* threads at the level of those accesses is explored.                     *)
(*                                                                         *)
(* The members keep their names without the leading underscore:            *)
(*   started       _started                                                *)
(*   thread        _thread (TRUE: joinable)                                *)
(*   service       _service (asio::io_service): its stopped flag and its   *)
(*                 queue of completion handlers ready to run               *)
(*   acceptor      _acceptor: the number of async_accept operations that   *)
(*                 are pending on it                                       *)
(*   sessions      _sessions (the keys of the map; a session and its id    *)
(*                 are the same number)                                    *)
(*   sessions_lock _sessions_lock (the thread holding it, or NoThread)     *)
(***************************************************************************)
EXTENDS Naturals, Sequences, FiniteSets

\* Bounds of the model.
MaxSessions == 2    \* connections the environment makes
MaxErrors == 1      \* accept and dispatch errors the environment injects
MaxCalls == 3       \* Start()/Stop() calls the controller thread issues

Main == "main"
Loop == "loop"
Main2 == "main2"
Controllers == {Main, Main2}
Workers == {"w1"}
Callers == Controllers \cup Workers
Threads == Callers \cup {Loop}
NoThread == "nobody"

Ids == 1..MaxSessions
\* An identifier CppCommon::UUID::Generate() never returns, and the value of
\* an empty std::shared_ptr<TSession>.
UnknownId == 0
NoSession == 0

\* The hooks counted per started period; onError is counted per call site:
\* the accept handler's and ServerLoop()'s; fatality(...) is the report of
\* ServerLoop()'s catch block.
HookNames == {"onStarting", "onStarted", "onStopping", "onStopped",
              "onThreadInitialize", "onThreadCleanup",
              "onError_accept", "onError_run", "fatality"}

StopSteps == <<"onStopping", "flag", "DisconnectAll", "stop", "join">>

VARIABLES
    started, thread, service, acceptor, sessions, sessions_lock,
    pc,         \* each thread's position in the code
    id,         \* UnregisterSession's argument, per calling thread
    session,    \* the local `session` of RegisterSession / UnregisterSession
    cache,      \* DisconnectAll's local copy of the sessions still to visit,
                \* per calling thread
    ec,         \* the error code _service.run(ec) returned
    uuid,       \* the number of identifiers generated so far
    \* history: what an instrumented build would observe
    hooks,          \* how often each hook fired since the last onStarting
    connected,      \* how often onConnected fired, per session
    disconnected,   \* how often onDisconnected fired, per session
    calls,          \* control calls issued so far
    last,           \* the most recent control call
    stopLog,        \* the steps the current (or last) effective Stop() took
    nerr,           \* errors injected so far
    period,         \* started periods so far: the Start() calls that took effect
    lateRuns        \* _service.run() calls of this period made with _started
                    \* already cleared

server == <<started, thread, service, acceptor, sessions, sessions_lock>>
locals == <<id, session, cache, ec, uuid>>
history == <<hooks, connected, disconnected, calls, last, stopLog, nerr,
             period, lateRuns>>
vars == <<started, thread, service, acceptor, sessions, sessions_lock,
          pc, id, session, cache, ec, uuid,
          hooks, connected, disconnected, calls, last, stopLog, nerr,
          period, lateRuns>>

----------------------------------------------------------------------------
\* Helpers

Min(S) == CHOOSE x \in S : \A y \in S : x <= y

Goto(t, label) == pc' = [pc EXCEPT ![t] = label]

Fire(h) == [hooks EXCEPT ![h] = @ + 1]

NoHooks == [h \in HookNames |-> 0]

Oks(q) == Cardinality({i \in 1..Len(q) : q[i] = "ok"})

\* bool IsStarted() const: a read of _started
IsStarted == started

\* CppCommon::UUID::Generate(): a fresh identifier on every call
Generate(n) == n + 1

\* std::lock_guard<std::mutex> locker(_sessions_lock): blocks while another
\* thread holds the mutex
Lock(t) ==
    /\ sessions_lock = NoThread
    /\ sessions_lock' = t

\* A locked block that keeps the mutex when it ends
UnlockForgotten == UNCHANGED sessions_lock

\* The end of the block that holds the std::lock_guard
Unlock == sessions_lock' = NoThread

----------------------------------------------------------------------------
Init ==
    /\ started = FALSE
    /\ thread = FALSE
    /\ service = [stopped |-> FALSE, ready |-> <<>>]
    /\ acceptor = 0
    /\ sessions = {}
    /\ sessions_lock = NoThread
    /\ pc = [t \in Threads |-> IF t = Loop THEN "none" ELSE "idle"]
    /\ id = [t \in Callers |-> UnknownId]
    /\ session = [t \in Threads |-> NoSession]
    /\ cache = [t \in Callers |-> {}]
    /\ ec = FALSE
    /\ uuid = 0
    /\ hooks = NoHooks
    /\ connected = [s \in Ids |-> 0]
    /\ disconnected = [s \in Ids |-> 0]
    /\ calls = 0
    /\ last = "none"
    /\ stopLog = <<>>
    /\ nerr = 0
    /\ period = 0
    /\ lateRuns = 0

----------------------------------------------------------------------------
\* The controller thread: Start() and Stop(), called one after another

\* An external thread calls Start() or Stop().
ControlCall(t) ==
    /\ pc[t] = "idle"
    /\ calls < MaxCalls
    /\ \E op \in {"Start", "Stop"} :
        /\ Goto(t, op)
        /\ last' = op
    /\ calls' = calls + 1
    /\ UNCHANGED <<server, locals, hooks, connected, disconnected, stopLog, nerr,
                   period, lateRuns>>

\* The controller thread calls Start() or Stop().
Call(t) ==
    /\ t = Main
    /\ ControlCall(t)

\* Start(): if (IsStarted()) return;
StartCheck(t) ==
    /\ pc[t] = "Start"
    /\ IF IsStarted THEN Goto(t, "idle") ELSE Goto(t, "Start_onStarting")
    /\ UNCHANGED <<server, locals, history>>

\* Start(): onStarting();
StartOnStarting(t) ==
    /\ pc[t] = "Start_onStarting"
    /\ hooks' = [NoHooks EXCEPT !["onStarting"] = 1]
    /\ stopLog' = <<>>
    /\ period' = period + 1
    /\ lateRuns' = 0
    /\ Goto(t, "Start_thread")
    /\ UNCHANGED <<server, locals, connected, disconnected, calls, last, nerr>>

\* Start(): _thread = std::thread([this]() { ServerLoop(); });
\* The new thread is made first and then move-assigned to _thread; when
\* _thread is still joinable (another Start() has spawned a server thread
\* that no Stop() has joined) the assignment calls std::terminate(), which
\* ends the process with both threads in it.
StartThread(t) ==
    /\ pc[t] = "Start_thread"
    /\ IF thread
          THEN /\ pc' = [x \in Threads |-> "terminated"]
               /\ UNCHANGED thread
          ELSE /\ thread' = TRUE
               /\ pc' = [pc EXCEPT ![t] = "Start_started",
                                   ![Loop] = "Loop_onThreadInitialize"]
    /\ UNCHANGED <<started, service, acceptor, sessions, sessions_lock,
                   locals, history>>

\* Start() without its last statement
StartStartedSkipped(t) ==
    /\ pc[t] = "Start_started"
    /\ Goto(t, "idle")
    /\ UNCHANGED <<server, locals, history>>

\* Start(): _started = true;
StartStarted(t) ==
    /\ pc[t] = "Start_started"
    /\ started' = TRUE
    /\ Goto(t, "idle")
    /\ UNCHANGED <<thread, service, acceptor, sessions, sessions_lock,
                   locals, history>>

\* Stop() without its first statement
StopCheckMissing(t) ==
    /\ pc[t] = "Stop"
    /\ Goto(t, "Stop_onStopping")
    /\ stopLog' = <<>>
    /\ UNCHANGED <<server, locals, hooks, connected, disconnected, calls, last, nerr,
                   period, lateRuns>>

\* Stop(): if (!IsStarted()) return;
StopCheck(t) ==
    /\ pc[t] = "Stop"
    /\ IF ~IsStarted
          THEN Goto(t, "idle") /\ UNCHANGED stopLog
          ELSE Goto(t, "Stop_onStopping") /\ stopLog' = <<>>
    /\ UNCHANGED <<server, locals, hooks, connected, disconnected, calls, last, nerr,
                   period, lateRuns>>

\* Stop(): onStopping();
StopOnStopping(t) ==
    /\ pc[t] = "Stop_onStopping"
    /\ hooks' = Fire("onStopping")
    /\ stopLog' = Append(stopLog, "onStopping")
    /\ Goto(t, "Stop_started")
    /\ UNCHANGED <<server, locals, connected, disconnected, calls, last, nerr,
                   period, lateRuns>>

\* Stop(): _started = false;
StopStarted(t) ==
    /\ pc[t] = "Stop_started"
    /\ started' = FALSE
    /\ stopLog' = Append(stopLog, "flag")
    /\ Goto(t, "DisconnectAll")
    /\ UNCHANGED <<thread, service, acceptor, sessions, sessions_lock,
                   locals, hooks, connected, disconnected, calls, last, nerr,
                   period, lateRuns>>

\* DisconnectAll(): std::lock_guard<std::mutex> locker(_sessions_lock);
DisconnectAllLock(t) ==
    /\ pc[t] = "DisconnectAll"
    /\ Lock(t)
    /\ stopLog' = Append(stopLog, "DisconnectAll")
    /\ Goto(t, "DisconnectAll_copy")
    /\ UNCHANGED <<started, thread, service, acceptor, sessions,
                   locals, hooks, connected, disconnected, calls, last, nerr,
                   period, lateRuns>>

\* DisconnectAll(): sessions = _sessions; and the end of the locked block
DisconnectAllCopy(t) ==
    /\ pc[t] = "DisconnectAll_copy"
    /\ cache' = [cache EXCEPT ![t] = sessions]
    /\ Unlock
    /\ Goto(t, "DisconnectAll_for")
    /\ UNCHANGED <<started, thread, service, acceptor, sessions,
                   id, session, ec, uuid, history>>

\* DisconnectAll(): for (auto& session : sessions) session.second->Disconnect();
\* std::map iterates in the order of the keys.
DisconnectAllFor(t) ==
    /\ pc[t] = "DisconnectAll_for"
    /\ IF cache[t] = {}
          THEN /\ Goto(t, "Stop_service")
               /\ UNCHANGED <<cache, id>>
          ELSE /\ cache' = [cache EXCEPT ![t] = @ \ {Min(cache[t])}]
               /\ id' = [id EXCEPT ![t] = Min(cache[t])]
               /\ Goto(t, "Disconnect")
    /\ UNCHANGED <<server, session, ec, uuid, history>>

\* TSession::Disconnect(), on the thread that calls it: the session leaves
\* through UnregisterSession(id()) of its server; its disconnect callback may
\* first re-enter the server (Stop(), IsStarted()).
SessionDisconnect(t) ==
    /\ pc[t] = "Disconnect"
    /\ \/ Goto(t, "Unregister")
       \/ Goto(t, "Disconnect_reenter")
    /\ UNCHANGED <<server, locals, history>>

\* The disconnect callback calls Stop() on the thread that is inside
\* DisconnectAll(): Stop() reads IsStarted() and returns at once when it is
\* false, as it is in every state one controller thread can reach here
\* (Stop() has cleared the flag before DisconnectAll()); were it true, the
\* nested call would take the steps of Stop() from onStopping on.
SessionReenter(t) ==
    /\ pc[t] = "Disconnect_reenter"
    /\ IF ~IsStarted THEN Goto(t, "Unregister") ELSE Goto(t, "Stop_onStopping")
    /\ UNCHANGED <<server, locals, history>>

\* Stop() without _service.stop()
StopServiceForgotten(t) ==
    /\ pc[t] = "Stop_service"
    /\ stopLog' = Append(stopLog, "stop")
    /\ Goto(t, "Stop_join")
    /\ UNCHANGED <<server, locals, hooks, connected, disconnected, calls, last, nerr,
                   period, lateRuns>>

\* Stop(): _service.stop();
StopService(t) ==
    /\ pc[t] = "Stop_service"
    /\ service' = [service EXCEPT !.stopped = TRUE]
    /\ stopLog' = Append(stopLog, "stop")
    /\ Goto(t, "Stop_join")
    /\ UNCHANGED <<started, thread, acceptor, sessions, sessions_lock,
                   locals, hooks, connected, disconnected, calls, last, nerr,
                   period, lateRuns>>

\* A join() that does not wait (as detach() would not)
JoinedNoWait == TRUE

\* std::thread::join(): returns once the thread function has returned
Joined == pc[Loop] = "Loop_exit"

\* A Stop() that detaches the server thread instead of joining it
StopJoinDetach(t) ==
    /\ pc[t] = "Stop_join"
    /\ thread' = FALSE
    /\ stopLog' = Append(stopLog, "join")
    /\ Goto(t, "idle")
    /\ UNCHANGED <<started, service, acceptor, sessions, sessions_lock,
                   locals, hooks, connected, disconnected, calls, last, nerr,
                   period, lateRuns>>

\* Stop(): _thread.join();
\* On a _thread that is not joinable (another Stop() has joined it) join()
\* throws std::system_error, which ends this call of Stop().
StopJoin(t) ==
    /\ pc[t] = "Stop_join"
    /\ IF thread
          THEN /\ Joined
               /\ thread' = FALSE
               /\ stopLog' = Append(stopLog, "join")
               /\ pc' = [pc EXCEPT ![t] = "idle",
                                   ![Loop] = IF pc[Loop] = "Loop_exit"
                                                THEN "none" ELSE @]
          ELSE /\ Goto(t, "idle")
               /\ UNCHANGED <<thread, stopLog>>
    /\ UNCHANGED <<started, service, acceptor, sessions, sessions_lock,
                   locals, hooks, connected, disconnected, calls, last, nerr,
                   period, lateRuns>>

----------------------------------------------------------------------------
\* UnregisterSession(id), on the controller thread (from Disconnect) or on a
\* thread that holds a session handle

\* A thread that received a session in onConnected calls
\* UnregisterSession(id) for it, or for an identifier the server never issued.
UnregisterCall(t) ==
    /\ t \in Workers
    /\ pc[t] = "idle"
    /\ \E i \in {s \in Ids : connected[s] > 0} \cup {UnknownId} :
        id' = [id EXCEPT ![t] = i]
    /\ Goto(t, "Unregister")
    /\ UNCHANGED <<server, session, cache, ec, uuid, history>>

\* UnregisterSession(): std::lock_guard<std::mutex> locker(_sessions_lock);
UnregisterLock(t) ==
    /\ pc[t] = "Unregister"
    /\ Lock(t)
    /\ Goto(t, "Unregister_find")
    /\ UNCHANGED <<started, thread, service, acceptor, sessions, locals, history>>

\* UnregisterSession() without _sessions.erase(it)
UnregisterFindNoErase(t) ==
    /\ pc[t] = "Unregister_find"
    /\ session' = [session EXCEPT ![t] = IF id[t] \in sessions THEN id[t] ELSE NoSession]
    /\ Unlock
    /\ Goto(t, "Unregister_handler")
    /\ UNCHANGED <<started, thread, service, acceptor, sessions,
                   id, cache, ec, uuid, history>>

\* UnregisterSession(): find, cache and erase the session; the end of the
\* locked block
UnregisterFind(t) ==
    /\ pc[t] = "Unregister_find"
    /\ IF id[t] \in sessions
          THEN /\ session' = [session EXCEPT ![t] = id[t]]
               /\ sessions' = sessions \ {id[t]}
          ELSE /\ session' = [session EXCEPT ![t] = NoSession]
               /\ UNCHANGED sessions
    /\ Unlock
    /\ Goto(t, "Unregister_handler")
    /\ UNCHANGED <<started, thread, service, acceptor, id, cache, ec, uuid, history>>

\* UnregisterSession(): if (session) onDisconnected(session); and the return
\* to the caller
UnregisterHandler(t) ==
    /\ pc[t] = "Unregister_handler"
    /\ IF session[t] # NoSession
          THEN disconnected' = [disconnected EXCEPT ![session[t]] = @ + 1]
          ELSE UNCHANGED disconnected
    /\ session' = [session EXCEPT ![t] = NoSession]
    /\ id' = [id EXCEPT ![t] = UnknownId]
    /\ Goto(t, IF t \in Controllers THEN "DisconnectAll_for" ELSE "idle")
    /\ UNCHANGED <<server, cache, ec, uuid, hooks, connected, calls, last,
                   stopLog, nerr, period, lateRuns>>

----------------------------------------------------------------------------
\* The listening socket

\* The pending async_accept completes, with a connection or with an error:
\* its completion handler is queued on the service.
AcceptCompletes ==
    /\ acceptor > 0
    /\ \E e \in {"ok", "error"} :
        /\ IF e = "ok"
              THEN uuid + Oks(service.ready) < MaxSessions /\ UNCHANGED nerr
              ELSE nerr < MaxErrors /\ nerr' = nerr + 1
        /\ service' = [service EXCEPT !.ready = Append(@, e)]
    /\ acceptor' = acceptor - 1
    /\ UNCHANGED <<started, thread, sessions, sessions_lock, pc, locals,
                   hooks, connected, disconnected, calls, last, stopLog,
                   period, lateRuns>>

----------------------------------------------------------------------------
\* The server thread: ServerLoop()

\* ServerLoop(): onThreadInitialize();
LoopOnThreadInitialize ==
    /\ pc[Loop] = "Loop_onThreadInitialize"
    /\ hooks' = Fire("onThreadInitialize")
    /\ Goto(Loop, "Loop_onStarted")
    /\ UNCHANGED <<server, locals, connected, disconnected, calls, last,
                   stopLog, nerr, period, lateRuns>>

\* ServerLoop(): onStarted();
LoopOnStarted ==
    /\ pc[Loop] = "Loop_onStarted"
    /\ hooks' = Fire("onStarted")
    /\ Goto(Loop, "Loop_ServerAccept")
    /\ UNCHANGED <<server, locals, connected, disconnected, calls, last,
                   stopLog, nerr, period, lateRuns>>

\* A ServerAccept() that arms an accept only when ServerLoop() calls it
ServerAcceptNoRearm(at, next) ==
    /\ pc[Loop] = at
    /\ IF at = "Loop_ServerAccept" /\ IsStarted
          THEN acceptor' = acceptor + 1
          ELSE UNCHANGED acceptor
    /\ Goto(Loop, next)
    /\ UNCHANGED <<started, thread, service, sessions, sessions_lock, locals, history>>

\* ServerAccept(): if (!IsStarted()) return; _acceptor.async_accept(...);
\* called at `at`, returning to `next`
ServerAccept(at, next) ==
    /\ pc[Loop] = at
    /\ IF IsStarted
          THEN acceptor' = acceptor + 1
          ELSE UNCHANGED acceptor
    /\ Goto(Loop, next)
    /\ UNCHANGED <<started, thread, service, sessions, sessions_lock, locals, history>>

\* ServerLoop(): ServerAccept();
LoopServerAccept == ServerAccept("Loop_ServerAccept", "Loop_while")

\* A loop that does not read _started: while (true)
LoopWhileIgnoresFlag ==
    /\ pc[Loop] = "Loop_while"
    /\ Goto(Loop, "Loop_call_run")
    /\ UNCHANGED <<server, locals, history>>

\* ServerLoop(): while (_started)
LoopWhile ==
    /\ pc[Loop] = "Loop_while"
    /\ IF started THEN Goto(Loop, "Loop_call_run") ELSE Goto(Loop, "Loop_onStopped")
    /\ UNCHANGED <<server, locals, history>>

\* ServerLoop(): the call _service.run(ec), which the thread makes after it
\* has read _started and found it true; Stop() may have cleared it since.
LoopRun ==
    /\ pc[Loop] = "Loop_call_run"
    /\ lateRuns' = IF started THEN lateRuns ELSE lateRuns + 1
    /\ Goto(Loop, "Loop_run")
    /\ UNCHANGED <<server, locals, hooks, connected, disconnected, calls, last,
                   stopLog, nerr, period>>

\* _service.run(ec) returns: the service is stopped (by stop(), and until
\* reset() by every later run()), or it has run out of work, which stops it.
RunReturns ==
    /\ pc[Loop] = "Loop_run"
    /\ \/ service.stopped /\ UNCHANGED service
       \/ /\ ~service.stopped
          /\ service.ready = <<>>
          /\ acceptor = 0
          /\ service' = [service EXCEPT !.stopped = TRUE]
    /\ ec' = FALSE
    /\ Goto(Loop, "Loop_ec")
    /\ UNCHANGED <<started, thread, acceptor, sessions, sessions_lock,
                   id, session, cache, uuid, history>>

\* _service.run(ec) returns with an error.
RunFails ==
    /\ pc[Loop] = "Loop_run"
    /\ nerr < MaxErrors
    /\ nerr' = nerr + 1
    /\ ec' = TRUE
    /\ Goto(Loop, "Loop_ec")
    /\ UNCHANGED <<server, id, session, cache, uuid,
                   hooks, connected, disconnected, calls, last, stopLog,
                   period, lateRuns>>

\* _service.run(ec) dispatches the next ready completion handler, the lambda
\* of ServerAccept(): if (!ec) RegisterSession(); else onError(...);
\* RegisterSession() first makes the session with a generated identifier.
RunDispatch ==
    /\ pc[Loop] = "Loop_run"
    /\ ~service.stopped
    /\ service.ready # <<>>
    /\ service' = [service EXCEPT !.ready = Tail(@)]
    /\ IF Head(service.ready) = "ok"
          THEN /\ uuid' = uuid + 1
               /\ session' = [session EXCEPT ![Loop] = Generate(uuid)]
               /\ Goto(Loop, "Register")
          ELSE /\ UNCHANGED <<uuid, session>>
               /\ Goto(Loop, "Accept_onError")
    /\ UNCHANGED <<started, thread, acceptor, sessions, sessions_lock,
                   id, cache, ec, history>>

\* RegisterSession(): std::lock_guard<std::mutex> locker(_sessions_lock);
RegisterLock ==
    /\ pc[Loop] = "Register"
    /\ Lock(Loop)
    /\ Goto(Loop, "Register_emplace")
    /\ UNCHANGED <<started, thread, service, acceptor, sessions, locals, history>>

\* RegisterSession(): _sessions.emplace(session->id(), session); and the end
\* of the locked block
RegisterEmplace ==
    /\ pc[Loop] = "Register_emplace"
    /\ sessions' = sessions \cup {session[Loop]}
    /\ Unlock
    /\ Goto(Loop, "Register_onConnected")
    /\ UNCHANGED <<started, thread, service, acceptor, locals, history>>

\* RegisterSession(): onConnected(session);
RegisterOnConnected ==
    /\ pc[Loop] = "Register_onConnected"
    /\ connected' = [connected EXCEPT ![session[Loop]] = @ + 1]
    /\ session' = [session EXCEPT ![Loop] = NoSession]
    /\ Goto(Loop, "Accept_ServerAccept")
    /\ UNCHANGED <<server, id, cache, ec, uuid,
                   hooks, disconnected, calls, last,
                   stopLog, nerr, period, lateRuns>>

\* The accept handler: onError(ec.value(), ec.category().name(), ec.message());
AcceptOnError ==
    /\ pc[Loop] = "Accept_onError"
    /\ hooks' = Fire("onError_accept")
    /\ Goto(Loop, "Accept_ServerAccept")
    /\ UNCHANGED <<server, locals, connected, disconnected, calls, last,
                   stopLog, nerr, period, lateRuns>>

\* The accept handler: ServerAccept(); and the return into _service.run(ec)
AcceptServerAccept == ServerAccept("Accept_ServerAccept", "Loop_run")

\* A ServerLoop() that leaves its loop when _service.run(ec) reports an error
LoopEcLeaves ==
    /\ pc[Loop] = "Loop_ec"
    /\ IF ec
          THEN hooks' = Fire("onError_run") /\ Goto(Loop, "Loop_onStopped")
          ELSE UNCHANGED hooks /\ Goto(Loop, "Loop_while")
    /\ ec' = FALSE
    /\ UNCHANGED <<server, id, session, cache, uuid,
                   connected, disconnected, calls, last,
                   stopLog, nerr, period, lateRuns>>

\* ServerLoop(): if (ec) onError(...); and the next iteration
LoopEc ==
    /\ pc[Loop] = "Loop_ec"
    /\ IF ec THEN hooks' = Fire("onError_run") ELSE UNCHANGED hooks
    /\ ec' = FALSE
    /\ Goto(Loop, "Loop_while")
    /\ UNCHANGED <<server, id, session, cache, uuid,
                   connected, disconnected, calls, last,
                   stopLog, nerr, period, lateRuns>>

\* ServerLoop(): onStopped();
LoopOnStopped ==
    /\ pc[Loop] = "Loop_onStopped"
    /\ hooks' = Fire("onStopped")
    /\ Goto(Loop, "Loop_onThreadCleanup")
    /\ UNCHANGED <<server, locals, connected, disconnected, calls, last,
                   stopLog, nerr, period, lateRuns>>

\* ServerLoop(): onThreadCleanup(); and the end of the thread function
LoopOnThreadCleanup ==
    /\ pc[Loop] = "Loop_onThreadCleanup"
    /\ hooks' = Fire("onThreadCleanup")
    /\ Goto(Loop, "Loop_exit")
    /\ UNCHANGED <<server, locals, connected, disconnected, calls, last,
                   stopLog, nerr, period, lateRuns>>

----------------------------------------------------------------------------
\* A step of a thread inside Start(), Stop() or UnregisterSession()
CallerNext(t) ==
    \/ StartCheck(t)
    \/ StartOnStarting(t)
    \/ StartThread(t)
    \/ StartStarted(t)
    \/ StopCheck(t)
    \/ StopOnStopping(t)
    \/ StopStarted(t)
    \/ DisconnectAllLock(t)
    \/ DisconnectAllCopy(t)
    \/ DisconnectAllFor(t)
    \/ SessionDisconnect(t)
    \/ SessionReenter(t)
    \/ StopService(t)
    \/ StopJoin(t)
    \/ UnregisterLock(t)
    \/ UnregisterFind(t)
    \/ UnregisterHandler(t)

\* A step of the server thread
LoopNext ==
    \/ LoopOnThreadInitialize
    \/ LoopOnStarted
    \/ LoopServerAccept
    \/ LoopWhile
    \/ LoopRun
    \/ RunReturns
    \/ RunFails
    \/ RunDispatch
    \/ RegisterLock
    \/ RegisterEmplace
    \/ RegisterOnConnected
    \/ AcceptOnError
    \/ AcceptServerAccept
    \/ LoopEc
    \/ LoopOnStopped
    \/ LoopOnThreadCleanup

Next ==
    \/ \E t \in Callers : Call(t) \/ CallerNext(t) \/ UnregisterCall(t)
    \/ AcceptCompletes
    \/ LoopNext

Spec == Init /\ [][Next]_vars

----------------------------------------------------------------------------
\* The controller thread and the server thread alone (no other thread calls
\* UnregisterSession), under the scheduling the threads get: a thread that
\* can take a step of the code it is in takes it; a thread waiting for
\* _sessions_lock gets it when it is released again and again.  Nothing makes
\* the controller call or a connection arrive.
LiveNext ==
    \/ Call(Main)
    \/ CallerNext(Main)
    \/ AcceptCompletes
    \/ LoopNext

MainStep ==
    \/ StartCheck(Main) \/ StartOnStarting(Main) \/ StartThread(Main)
    \/ StartStarted(Main) \/ StopCheck(Main) \/ StopOnStopping(Main)
    \/ StopStarted(Main) \/ DisconnectAllCopy(Main) \/ DisconnectAllFor(Main)
    \/ SessionDisconnect(Main) \/ SessionReenter(Main) \/ StopService(Main)
    \/ StopJoin(Main) \/ UnregisterFind(Main) \/ UnregisterHandler(Main)

MainLock == DisconnectAllLock(Main) \/ UnregisterLock(Main)

LoopStep ==
    \/ LoopOnThreadInitialize \/ LoopOnStarted \/ LoopServerAccept
    \/ LoopWhile \/ LoopRun \/ RunReturns \/ RunDispatch \/ RegisterEmplace
    \/ RegisterOnConnected \/ AcceptOnError \/ AcceptServerAccept
    \/ LoopEc \/ LoopOnStopped \/ LoopOnThreadCleanup

Fairness ==
    /\ WF_vars(MainStep)
    /\ SF_vars(MainLock)
    /\ WF_vars(LoopStep)
    /\ SF_vars(RegisterLock)

LiveSpec == Init /\ [][LiveNext]_vars /\ Fairness

----------------------------------------------------------------------------
\* Two controller threads that call Start() and Stop() concurrently, and the
\* server thread.
ConcNext ==
    \/ \E t \in Controllers : ControlCall(t) \/ CallerNext(t)
    \/ AcceptCompletes
    \/ LoopNext

ConcSpec == Init /\ [][ConcNext]_vars

----------------------------------------------------------------------------
\* Faults: an exception thrown inside the try block of ServerLoop()

\* The positions of the server thread inside the try block at which user code
\* or an allocation runs: onStarted(), RegisterSession() (make_shared, emplace,
\* onConnected), the two onError() calls and onStopped().
FaultPoints ==
    {"Loop_onStarted", "Register", "Register_emplace", "Register_onConnected",
     "Accept_onError", "Loop_ec", "Loop_onStopped"}

\* The statement the thread is at throws: the stack unwinds to
\* `catch (...)` of ServerLoop(), through _service.run(ec) when a completion
\* handler was running, and the lock_guard of RegisterSession() releases
\* _sessions_lock on the way.
LoopFault ==
    /\ pc[Loop] \in FaultPoints
    /\ sessions_lock' = IF sessions_lock = Loop THEN NoThread ELSE sessions_lock
    /\ session' = [session EXCEPT ![Loop] = NoSession]
    /\ ec' = FALSE
    /\ Goto(Loop, "Loop_catch")
    /\ UNCHANGED <<started, thread, service, acceptor, sessions,
                   id, cache, uuid, history>>

\* A catch block that ends the thread function at once
LoopFatalityReturns ==
    /\ pc[Loop] = "Loop_catch"
    /\ hooks' = Fire("fatality")
    /\ Goto(Loop, "Loop_exit")
    /\ UNCHANGED <<server, locals, connected, disconnected, calls, last,
                   stopLog, nerr, period, lateRuns>>

\* ServerLoop(): catch (...) { fatality("TCP server thread terminated!"); }
\* The report returns and the thread goes on to onThreadCleanup().
LoopFatality ==
    /\ pc[Loop] = "Loop_catch"
    /\ hooks' = Fire("fatality")
    /\ Goto(Loop, "Loop_onThreadCleanup")
    /\ UNCHANGED <<server, locals, connected, disconnected, calls, last,
                   stopLog, nerr, period, lateRuns>>

\* The controller thread and the server thread, with faults.
FaultNext ==
    \/ LiveNext
    \/ LoopFault
    \/ LoopFatality

FaultSpec ==
    Init /\ [][FaultNext]_vars /\ Fairness /\ WF_vars(LoopFatality)

----------------------------------------------------------------------------
\* What the claims speak of

\* The controller thread is between two calls, the last of which was `op`.
Returned(op) == pc[Main] = "idle" /\ last = op

\* The accept handler is running and has not yet made its ServerAccept() call.
InAcceptHandler ==
    pc[Loop] \in {"Register", "Register_emplace", "Register_onConnected",
                  "Accept_onError", "Accept_ServerAccept"}

\* Accepts outstanding: pending on the acceptor, or completed with the handler
\* still to run or to reach its re-arming ServerAccept().
Outstanding ==
    acceptor + Len(service.ready) + (IF InAcceptHandler THEN 1 ELSE 0)

\* The server thread has made the first ServerAccept() call of ServerLoop().
PastFirstAccept ==
    pc[Loop] \notin {"none", "Loop_onThreadInitialize", "Loop_onStarted",
                     "Loop_ServerAccept"}

\* The positions at which a thread is about to invoke a hook or a session
\* method from RegisterSession(), UnregisterSession() or DisconnectAll():
\* onConnected(session), onDisconnected(session), session.second->Disconnect().
HookPositions ==
    {"Register_onConnected", "Unregister_handler", "DisconnectAll_for",
     "Disconnect", "Disconnect_reenter"}

\* Session s has been inserted into the registry at some time.
WasRegistered(s) ==
    /\ s <= uuid
    /\ ~(session[Loop] = s /\ pc[Loop] \in {"Register", "Register_emplace"})

\* The threads that have removed s and are about to fire onDisconnected for it.
AboutToFire(s) ==
    {t \in Callers : pc[t] = "Unregister_handler" /\ session[t] = s}

----------------------------------------------------------------------------
\* C1: after every Start() or Stop() call of a sequence issued by one
\* external thread, IsStarted() is true if and only if that call was Start().
C1_IsStartedIsLastCall ==
    (pc[Main] = "idle" /\ last # "none") => (IsStarted <=> last = "Start")

\* A sequence Start(), Stop(), Stop() has returned: the last call was a
\* redundant one.
C1_Witness ==
    /\ Returned("Stop")
    /\ calls = 3
    /\ hooks["onStarting"] = 1
    /\ hooks["onStopping"] = 1
    /\ ~IsStarted

\* C2: whenever Start() has returned with no Stop() called since, and the
\* server thread is past its first ServerAccept() call, exactly one accept is
\* outstanding (a completed accept counts until its handler has re-armed).
C2_ExactlyOneAccept ==
    (Returned("Start") /\ PastFirstAccept) => Outstanding = 1

\* C3: a session is in the registry when onConnected fires for it and is not
\* in it when onDisconnected fires for it, and an identifier enters the
\* registry once only, before onConnected has fired for it.
C3_RegisteredAtHooks ==
    [][\A s \in Ids :
        /\ connected'[s] > connected[s] => s \in sessions
        /\ disconnected'[s] > disconnected[s] => s \notin sessions
        /\ (s \in sessions' /\ s \notin sessions) => connected[s] = 0]_vars

\* C4: Stop() on a started server takes its steps in the order onStopping,
\* clear the flag, DisconnectAll, stop the service, join; each step has its
\* effect before the next is taken, and Stop() returns only when the server
\* thread has fired onStopped and onThreadCleanup and has ended.
C4_StopOrder ==
    /\ \E n \in 0..Len(StopSteps) : stopLog = SubSeq(StopSteps, 1, n)
    /\ Len(stopLog) = 1 => started /\ hooks["onStopping"] = 1
    /\ Len(stopLog) >= 2 => ~started
    /\ Len(stopLog) >= 4 => service.stopped /\ cache[Main] = {}
    /\ Len(stopLog) \in 1..4 => thread /\ pc[Main] # "idle"
    /\ Len(stopLog) = 5 =>
          /\ ~thread
          /\ pc[Loop] = "none"
          /\ hooks["onStopped"] = 1
          /\ hooks["onThreadCleanup"] = 1
    /\ (Returned("Stop") /\ hooks["onStopping"] > 0) => stopLog = StopSteps

\* Stop() has returned from a server on which a session had connected.
C4_Witness ==
    /\ Returned("Stop")
    /\ stopLog = StopSteps
    /\ connected[1] = 1
    /\ disconnected[1] = 1

\* C5: when Stop() has returned the registry is empty.
C5_EmptyAfterStop ==
    Returned("Stop") => sessions = {}

\* C6: the accept handler, run with an error, fires onError once, registers
\* no session, and its ServerAccept() arms the next accept when the server is
\* started; so in a started server that has handled accept errors one accept
\* is outstanding, and a connection that completes an accept is registered
\* unless the service is stopped first.
C6_AcceptErrorRearms ==
    /\ [][/\ (/\ pc[Loop] = "Loop_run"
              /\ pc'[Loop] \in {"Register", "Accept_onError"}
              /\ Head(service.ready) = "error")
             => /\ pc'[Loop] = "Accept_onError"
                /\ UNCHANGED <<sessions, uuid, hooks>>
          /\ (pc[Loop] = "Accept_onError" /\ pc'[Loop] # "Accept_onError")
             => /\ pc'[Loop] = "Accept_ServerAccept"
                /\ hooks' = [hooks EXCEPT !["onError_accept"] = @ + 1]
                /\ UNCHANGED <<sessions, uuid>>
          /\ (/\ pc[Loop] = "Accept_ServerAccept"
              /\ pc'[Loop] # "Accept_ServerAccept"
              /\ IsStarted)
             => /\ pc'[Loop] = "Loop_run"
                /\ acceptor' = acceptor + 1]_vars
    /\ []((/\ IsStarted
           /\ hooks["onError_accept"] > 0
           /\ pc[Loop] \in {"Loop_call_run", "Loop_run", "Loop_ec", "Loop_while"})
          => Outstanding = 1)
    /\ \A n \in 0..(MaxSessions - 1) :
          (Oks(service.ready) > 0 /\ uuid = n)
             ~> (n + 1 \in sessions \/ service.stopped)

\* The first connection is registered after an accept had failed.
C6_Witness ==
    /\ pc[Loop] = "Register_onConnected"
    /\ session[Loop] = 1
    /\ 1 \in sessions
    /\ hooks["onError_accept"] = MaxErrors
    /\ IsStarted

\* C7: Start() on a started server and Stop() on a server that is not started
\* return at once: no hook fires, no thread is spawned or joined, and the
\* flag, the registry, the service and the acceptor are left as they were.
C7_RedundantCallsAreNoOps ==
    [][((\/ pc[Main] = "Start" /\ pc'[Main] # "Start" /\ IsStarted
         \/ pc[Main] = "Stop" /\ pc'[Main] # "Stop" /\ ~IsStarted))
       => /\ pc'[Main] = "idle"
          /\ \A t \in Threads \ {Main} : pc'[t] = pc[t]
          /\ UNCHANGED <<server, locals, hooks, connected, disconnected, stopLog>>]_vars

\* Stop() has returned from a server that was never started.
C7_Witness ==
    /\ Returned("Stop")
    /\ calls = 1
    /\ hooks = NoHooks
    /\ ~thread

\* C8: UnregisterSession(id) with an identifier that is not in the registry
\* changes nothing and fires no hook; and however many calls are made for a
\* session, from whichever threads, onDisconnected fires for it exactly once:
\* it has fired or is about to fire on exactly one thread once the session
\* has left the registry, and on none before.
C8_UnregisterIdempotent ==
    /\ [][\A t \in Callers :
            /\ (/\ pc[t] = "Unregister_find"
                /\ pc'[t] # "Unregister_find"
                /\ id[t] \notin sessions)
               => /\ session'[t] = NoSession
                  /\ UNCHANGED <<started, thread, service, acceptor, sessions,
                                 hooks, connected, disconnected>>
            /\ (/\ pc[t] = "Unregister_handler"
                /\ pc'[t] # "Unregister_handler"
                /\ session[t] = NoSession)
               => UNCHANGED <<server, hooks, connected, disconnected>>]_vars
    /\ [](\A s \in Ids :
            disconnected[s] + Cardinality(AboutToFire(s))
               = IF WasRegistered(s) /\ s \notin sessions THEN 1 ELSE 0)

\* The controller thread, inside DisconnectAll, has called UnregisterSession
\* for a session that another thread had already unregistered.
C8_Witness ==
    /\ pc[Main] = "Unregister_handler"
    /\ id[Main] = 1
    /\ session[Main] = NoSession
    /\ disconnected[1] = 1

\* C9: a Stop() that has found the server started returns.
C9_StopReturns ==
    (pc[Main] = "Stop_onStopping") ~> (pc[Main] = "idle")

\* A session's disconnect callback re-enters Stop() while DisconnectAll is
\* iterating and another session is still to be disconnected.
C9_Witness ==
    /\ pc[Main] = "Disconnect_reenter"
    /\ cache[Main] # {}
    /\ pc[Loop] = "Loop_run"

\* C10: onDisconnected fires for a session only after onConnected has fired
\* for it.
C10_ConnectedBeforeDisconnected ==
    [][\A s \in Ids : disconnected'[s] > disconnected[s] => connected[s] > 0]_vars

\* C11: when _service.run(ec) returns with an error, ServerLoop() fires
\* onError once and no other hook (neither onStopped nor fatality), leaves
\* _started and the registry as they are and goes back to the check of
\* _started; when the check finds the flag true the thread calls
\* _service.run(ec) again instead of ending.
C11_RunErrorContinues ==
    [][/\ (pc[Loop] = "Loop_run" /\ pc'[Loop] = "Loop_ec" /\ ec')
          => UNCHANGED <<server, hooks>>
       /\ (pc[Loop] = "Loop_ec" /\ pc'[Loop] # "Loop_ec" /\ ec)
          => /\ pc'[Loop] = "Loop_while"
             /\ hooks' = [hooks EXCEPT !["onError_run"] = @ + 1]
             /\ UNCHANGED <<started, sessions>>
       /\ (pc[Loop] = "Loop_while" /\ pc'[Loop] # "Loop_while" /\ started)
          => /\ pc'[Loop] = "Loop_call_run"
             /\ UNCHANGED <<started, sessions, hooks>>
       /\ (pc[Loop] = "Loop_call_run" /\ pc'[Loop] # "Loop_call_run")
          => /\ pc'[Loop] = "Loop_run"
             /\ UNCHANGED <<started, sessions, hooks>>]_vars

\* The server thread is inside _service.run(ec) again after a run that had
\* returned an error to a started server.
C11_Witness ==
    /\ pc[Loop] = "Loop_run"
    /\ hooks["onError_run"] = 1
    /\ hooks["onStopped"] = 0
    /\ started
    /\ lateRuns = 0

C13_NoHookUnderLock ==
    \A t \in Threads :
        /\ pc[t] \in HookPositions => sessions_lock # t
        /\ sessions_lock = t
             => pc[t] \in {"Register_emplace", "Unregister_find", "DisconnectAll_copy"}

\* DisconnectAll() is calling a session's Disconnect() while the server
\* thread holds the lock inside RegisterSession().
C13_Witness ==
    /\ pc[Main] = "Disconnect"
    /\ pc[Loop] = "Register_emplace"
    /\ sessions_lock = Loop

\* C14: on a run of the server thread without a fault the hooks fire in the
\* order onThreadInitialize, onStarted, (onConnected and onError), onStopped,
\* onThreadCleanup, each of the four once when the thread has ended, and the
\* first ServerAccept() call, made after onStarted and before the first
\* _service.run(ec), arms the first accept.
C14_LoopHookOrder ==
    /\ [](/\ hooks["onThreadInitialize"] <= 1
          /\ hooks["onStarted"] <= hooks["onThreadInitialize"]
          /\ hooks["onStopped"] <= hooks["onStarted"]
          /\ hooks["onThreadCleanup"] <= hooks["onStopped"]
          /\ pc[Loop] = "Loop_exit" => hooks["onThreadCleanup"] = 1)
    /\ [][(\/ hooks'["onError_accept"] > hooks["onError_accept"]
           \/ hooks'["onError_run"] > hooks["onError_run"]
           \/ \E s \in Ids : connected'[s] > connected[s])
          => hooks["onStarted"] = 1 /\ hooks["onStopped"] = 0]_vars
    /\ [][(pc[Loop] = "Loop_ServerAccept" /\ pc'[Loop] # "Loop_ServerAccept")
          => /\ hooks["onStarted"] = 1
             /\ pc'[Loop] = "Loop_while"
             /\ acceptor' = acceptor + 1]_vars

\* C15: with two threads calling Start() concurrently no Start() spawns a
\* server thread while one exists: the assignment to a still joinable
\* _thread, which ends the process, is never made.
C15_OneLoopThread ==
    \A t \in Threads : pc[t] # "terminated"

\* C16: with two threads calling Stop() concurrently on a started server
\* onStopping fires once in the started period and one of the calls alone
\* reaches _thread.join().
C16_OneStopPerPeriod ==
    /\ hooks["onStopping"] <= 1
    /\ Cardinality({t \in Controllers : pc[t] = "Stop_join"}) <= 1

\* C17: in a started period the server thread calls _service.run(ec) at
\* most once with _started already cleared (the call it makes when Stop()
\* clears the flag between the thread's check and its call), and the next
\* check of the flag ends the loop.
C17_OneLateRun ==
    /\ [](lateRuns <= 1)
    /\ [][(pc[Loop] = "Loop_while" /\ pc'[Loop] # "Loop_while" /\ ~started)
          => pc'[Loop] = "Loop_onStopped"]_vars

\* The server thread has ended after one _service.run(ec) call that it made
\* with the flag already cleared.
C17_Witness ==
    /\ lateRuns = 1
    /\ pc[Loop] = "Loop_exit"
    /\ hooks["onStopping"] = 1

\* C18: the server thread leaves its loop and fires onStopped only after a
\* Stop() has fired onStopping in that started period.
C18_StoppedAfterStopping ==
    [][/\ (pc[Loop] = "Loop_while" /\ pc'[Loop] = "Loop_onStopped")
          => hooks["onStopping"] = 1
       /\ hooks'["onStopped"] > hooks["onStopped"]
          => /\ hooks["onStarting"] = 1
             /\ hooks["onStarted"] = 1
             /\ hooks["onStopping"] = 1]_vars

\* C19: in a second started period the server works as in the first: when
\* Start() has returned and the server thread is inside _service.run(ec),
\* the service is not stopped (the call blocks and dispatches) and one
\* accept is outstanding.
C19_RestartWorks ==
    (/\ period >= 2
     /\ Returned("Start")
     /\ started
     /\ pc[Loop] = "Loop_run")
    => (~service.stopped /\ Outstanding = 1)

\* C20: from the return of Stop() to the next Start() there is no server
\* thread, and no step fires a hook of the server thread, inserts a session
\* or runs an accept completion handler: the hook counts, the onConnected
\* counts and the generated identifiers stay as they are, the registry
\* gains nothing and no queued completion handler is taken.
C20_QuietAfterStop ==
    /\ [](Returned("Stop") => pc[Loop] = "none" /\ ~thread /\ ~started)
    /\ [][Returned("Stop")
          => /\ UNCHANGED <<hooks, connected, uuid>>
             /\ sessions' \subseteq sessions
             /\ Len(service'.ready) >= Len(service.ready)
             /\ pc'[Loop] = "none"]_vars

\* Stop() has stopped a started server and returned, and a connection that
\* completed the pending accept afterwards waits in the service's queue.
C20_Witness ==
    /\ Returned("Stop")
    /\ stopLog = StopSteps
    /\ hooks["onStopped"] = 1
    /\ Oks(service.ready) > 0

====
